---------------------------- MODULE Spec2Model ----------------------------
(***************************************************************************)
(* The prometheus output of gnmic (outputs/prometheus_output): the event   *)
(* to metric translation, the expiring metric store behind one mutex, the  *)
(* ingestion loop (worker), the expiry loop (expireMetricsPeriodic), the   *)
(* export path (Collect) and the start/stop lifecycle (Init, Close).       *)
(*                                                                         *)
(* Strings are sequences of byte values (Go strings are byte sequences):   *)
(* <<105, 110>> is "in".  Times are integers in units of one minute.       *)
(***************************************************************************)
EXTENDS Integers, Sequences, FiniteSets, TLC

(***************************************************************************)
(* Bounds of the model.                                                    *)
(***************************************************************************)
\* the clock (time.Now) runs over 0..MaxTime
MaxTime == 3
\* observation timestamps of events (ev.Timestamp) are drawn from 0..MaxTs
MaxTs == 1
\* number of events the producers hand to WriteEvent
MaxEvents == 2
\* the same, in the specification that also shuts the output down
MaxEventsShutdown == 1
\* number of scrape requests running Collect concurrently
NumCollectors == 1

(***************************************************************************)
(* Strings.                                                                *)
(***************************************************************************)
\* a nil *time.Time
NULL == -1

\* a < b on Go strings: bytewise lexicographic order
RECURSIVE StrLess(_, _)
StrLess(a, b) ==
    IF b = <<>> THEN FALSE
    ELSE IF a = <<>> THEN TRUE
    ELSE IF Head(a) # Head(b) THEN Head(a) < Head(b)
    ELSE StrLess(Tail(a), Tail(b))

\* the characters metricNameRegex "[^a-zA-Z0-9_]+" does NOT match
isWordByte(c) ==
    \/ c \in 97..122
    \/ c \in 65..90
    \/ c \in 48..57
    \/ c = 95

\* p.metricRegex.ReplaceAllString(s, "_"): every maximal run of bytes outside
\* [a-zA-Z0-9_] becomes one "_"
RECURSIVE ReplaceAllString(_)
ReplaceAllString(s) ==
    IF s = <<>> THEN <<>>
    ELSE IF isWordByte(Head(s)) THEN <<Head(s)>> \o ReplaceAllString(Tail(s))
    ELSE IF Len(s) > 1 /\ ~isWordByte(s[2]) THEN ReplaceAllString(Tail(s))
    ELSE <<95>> \o ReplaceAllString(Tail(s))

\* strings.TrimRight(s, "_")
RECURSIVE TrimRight(_)
TrimRight(s) ==
    IF s # <<>> /\ s[Len(s)] = 95 THEN TrimRight(SubSeq(s, 1, Len(s) - 1)) ELSE s

\* strings.TrimLeft(s, "_")
RECURSIVE TrimLeft(_)
TrimLeft(s) ==
    IF s # <<>> /\ Head(s) = 95 THEN TrimLeft(Tail(s)) ELSE s

\* strip trailing "/" (47)
RECURSIVE StripSlashes(_)
StripSlashes(s) ==
    IF s # <<>> /\ s[Len(s)] = 47 THEN StripSlashes(SubSeq(s, 1, Len(s) - 1)) ELSE s

\* the part of s after its last "/"
RECURSIVE AfterLastSlash(_)
AfterLastSlash(s) ==
    IF \E i \in 1..Len(s) : s[i] = 47 THEN AfterLastSlash(Tail(s)) ELSE s

\* filepath.Base(path) with the separator "/": "" gives ".", trailing
\* separators are stripped, a path of separators only gives "/"
Base(path) ==
    IF path = <<>> THEN <<46>>
    ELSE IF StripSlashes(path) = <<>> THEN <<47>>
    ELSE AfterLastSlash(StripSlashes(path))

(***************************************************************************)
(* hash/fnv New64a: a 64-bit value is its 8 bytes, least significant       *)
(* first.                                                                  *)
(***************************************************************************)
RECURSIVE Xor8(_, _, _)
Xor8(a, b, n) ==
    IF n = 0 THEN 0
    ELSE (((a % 2) + (b % 2)) % 2) + 2 * Xor8(a \div 2, b \div 2, n - 1)

\* offset basis 0xcbf29ce484222325
fnvOffset64 == <<37, 35, 34, 132, 228, 156, 242, 203>>

\* h * 0x100000001b3 mod 2^64: prime = 2^40 + 435
RECURSIVE fnvMulLimb(_, _, _)
fnvMulLimb(h, i, carry) ==
    IF i > 8 THEN <<>>
    ELSE LET t == h[i] * 435 + (IF i > 5 THEN h[i - 5] ELSE 0) + carry
         IN  <<(t % 256)>> \o fnvMulLimb(h, i + 1, t \div 256)

\* the operand is bound by a quantifier, which makes it a value before it
\* is multiplied
fnvMulPrime(h) == CHOOSE r \in {fnvMulLimb(x, 1, 0) : x \in {h}} : TRUE

\* one Write of a byte: hash ^= c; hash *= prime64
fnvWriteByte(h, c) == fnvMulPrime([h EXCEPT ![1] = Xor8(h[1], c, 8)])

\* h.Write(bytes) from state h; the state after each byte is bound by a
\* quantifier, which makes it a value before the next byte is written
RECURSIVE fnvWrite(_, _)
fnvWrite(h, bytes) ==
    IF bytes = <<>> THEN h
    ELSE CHOOSE r \in {fnvWrite(x, b) : x \in {fnvWriteByte(h, Head(bytes))},
                                        b \in {Tail(bytes)}} : TRUE

(***************************************************************************)
(* Value coercion, label projection, metric naming, metric identity.       *)
(* A scalar is [kind, num] (an integer kind), [kind |-> "string", str] or  *)
(* [kind |-> "bool"] (a kind getFloat does not know).  A float64 is an     *)
(* integer; NaN is the string "NaN".                                       *)
(***************************************************************************)
isDigits(s) == s # <<>> /\ \A i \in 1..Len(s) : s[i] \in 48..57

RECURSIVE digitsValue(_)
digitsValue(s) ==
    IF s = <<>> THEN 0 ELSE 10 * digitsValue(SubSeq(s, 1, Len(s) - 1)) + (s[Len(s)] - 48)

\* strconv.ParseFloat(s, 64) on the strings of the model: an optionally
\* signed run of decimal digits parses, every other string of EventShapes
\* (a word of letters that is not inf, infinity or nan) is a syntax error
ParseFloat(s) ==
    IF isDigits(s) THEN [err |-> FALSE, f |-> digitsValue(s)]
    ELSE IF s # <<>> /\ Head(s) = 45 /\ isDigits(Tail(s))
         THEN [err |-> FALSE, f |-> 0 - digitsValue(Tail(s))]
    ELSE IF s # <<>> /\ Head(s) = 43 /\ isDigits(Tail(s))
         THEN [err |-> FALSE, f |-> digitsValue(Tail(s))]
    ELSE [err |-> TRUE, f |-> "NaN"]

getFloat(v) ==
    IF v.kind \in {"float64", "float32", "int64", "int32", "int16", "int8",
                   "uint64", "uint32", "uint16", "uint8", "int", "uint"}
    THEN [err |-> FALSE, f |-> v.num]
    ELSE IF v.kind = "string" THEN ParseFloat(v.str)
    ELSE [err |-> TRUE, f |-> "NaN"]

\* the first loop of getLabels, over ev.Tags in the iteration order `order`
RECURSIVE tagLabels(_, _, _, _)
tagLabels(Tags, order, labels, addedLabels) ==
    IF order = <<>> THEN [labels |-> labels, addedLabels |-> addedLabels]
    ELSE LET k == Head(order)
             labelName == ReplaceAllString(Base(k))
         IN  IF labelName \in addedLabels
             THEN tagLabels(Tags, Tail(order), labels, addedLabels)
             ELSE tagLabels(Tags, Tail(order),
                            Append(labels, [Name |-> labelName, Value |-> Tags[k]]),
                            addedLabels \cup {labelName})

\* the second loop of getLabels, over ev.Values in the iteration order
\* `order`; addedLabels is read and never written
RECURSIVE valueLabels(_, _, _, _)
valueLabels(Values, order, labels, addedLabels) ==
    IF order = <<>> THEN labels
    ELSE LET k == Head(order)
             v == Values[k]
             labelName == ReplaceAllString(Base(k))
         IN  IF ~getFloat(v).err
             THEN valueLabels(Values, Tail(order), labels, addedLabels)
             ELSE IF v.kind = "string" /\ labelName \notin addedLabels
             THEN valueLabels(Values, Tail(order),
                              Append(labels, [Name |-> labelName, Value |-> v.str]),
                              addedLabels)
             ELSE valueLabels(Values, Tail(order), labels, addedLabels)

\* getLabels for one order of iteration over the two maps of the event
getLabels(c, e, tagOrder, valOrder) ==
    LET t == tagLabels(e.Tags, tagOrder, <<>>, {})
    IN  IF ~c.StringsAsLabels THEN t.labels
        ELSE valueLabels(e.Values, valOrder, t.labels, t.addedLabels)

\* the iteration orders of a Go map with key set S
RECURSIVE rangeOrders(_)
rangeOrders(S) ==
    IF S = {} THEN {<<>>}
    ELSE UNION {{<<x>> \o o : o \in rangeOrders(S \ {x})} : x \in S}

\* every label sequence getLabels can return for the event
getLabelsResults(c, e) ==
    {getLabels(c, e, to, vo) : to \in rangeOrders(DOMAIN e.Tags),
                               vo \in rangeOrders(DOMAIN e.Values)}

\* metricName(measName, valueName)
metricName(c, measName, valueName) ==
    (IF c.MetricPrefix # <<>> THEN ReplaceAllString(c.MetricPrefix) \o <<95>> ELSE <<>>)
    \o (IF c.AppendSubscriptionName
        THEN TrimRight(ReplaceAllString(measName)) \o <<95>> ELSE <<>>)
    \o TrimLeft(ReplaceAllString(valueName))

\* one pass of the insertion sort sort.Slice runs on a slice of fewer than
\* 12 elements: x moves left while its Name is less than its neighbour's
RECURSIVE insertLabel(_, _)
insertLabel(s, x) ==
    IF s # <<>> /\ StrLess(x.Name, s[Len(s)].Name)
    THEN Append(insertLabel(SubSeq(s, 1, Len(s) - 1), x), s[Len(s)])
    ELSE Append(s, x)

\* sort.Slice(p.labels, Name less): in place, by Name only
RECURSIVE sortSlice(_)
sortSlice(labels) ==
    IF labels = <<>> THEN <<>>
    ELSE insertLabel(sortSlice(SubSeq(labels, 1, Len(labels) - 1)), labels[Len(labels)])

\* the bytes written for the labels, in the order of the slice
RECURSIVE labelBytes(_)
labelBytes(labels) ==
    IF labels = <<>> THEN <<>>
    ELSE Head(labels).Name \o <<58>> \o Head(labels).Value \o <<58>>
         \o labelBytes(Tail(labels))

\* everything calculateKey writes to the hash for (name, labels)
hashedBytes(name, labels) ==
    name \o (IF Len(labels) > 0 THEN <<58>> \o labelBytes(sortSlice(labels)) ELSE <<>>)

\* calculateKey: h.Sum64() after the writes
calculateKey(name, labels) == fnvWrite(fnvOffset64, hashedBytes(name, labels))

(***************************************************************************)
(* The store: entries is a function from keys to promMetric records        *)
(* [name, labels, time, value, addedAt]; time is NULL for a nil pointer.   *)
(***************************************************************************)
\* time.Minute in the unit of the model
defaultExpiration == 1

\* setDefaults with the default taken for every TTL that is not positive
setDefaults_DefaultForNegative(c) ==
    IF c.Expiration <= 0 THEN [c EXCEPT !.Expiration = defaultExpiration] ELSE c

\* the part of setDefaults that the store depends on
setDefaults(c) ==
    IF c.Expiration = 0 THEN [c EXCEPT !.Expiration = defaultExpiration] ELSE c

\* the store after `p.entries[key] = pm`
put(es, k, m) == [x \in DOMAIN es \cup {k} |-> IF x = k THEN m ELSE es[x]]

\* the worker dereferences e.time of a stored entry that has none
upsertPanics(es, k, m) == k \in DOMAIN es /\ m.time # NULL /\ es[k].time = NULL

\* the save without the comparison of timestamps: last write wins
upsert_LastWriteWins(es, k, m) == put(es, k, m)

\* the store after the if of the worker that saves pm under key
upsert(es, k, m) ==
    IF k \in DOMAIN es /\ m.time # NULL
    THEN IF es[k].time < m.time THEN put(es, k, m) ELSE es
    ELSE put(es, k, m)

\* expireMetrics dereferences e.time of a stored entry that has none
expirePanics(es, c) ==
    c.Expiration > 0 /\ c.ExportTimestamps /\ \E k \in DOMAIN es : es[k].time = NULL

\* expireMetrics evicting already at age = TTL (not Before: not After)
expireMetrics_AtTtl(es, c, t) ==
    IF c.Expiration <= 0 THEN es
    ELSE LET expiry == t - c.Expiration
             keep == {k \in DOMAIN es :
                        IF c.ExportTimestamps
                        THEN es[k].time = NULL \/ es[k].time > expiry
                        ELSE es[k].addedAt > expiry}
         IN  [k \in keep |-> es[k]]

\* expireMetrics without its first if: a TTL <= 0 is used like any other
expireMetrics_NoDisable(es, c, t) ==
    LET expiry == t - c.Expiration
        keep == {k \in DOMAIN es :
                   IF c.ExportTimestamps
                   THEN es[k].time = NULL \/ ~(es[k].time < expiry)
                   ELSE ~(es[k].addedAt < expiry)}
    IN  [k \in keep |-> es[k]]

\* expireMetrics aging every entry by addedAt, timestamps exported or not
expireMetrics_AddedAtOnly(es, c, t) ==
    IF c.Expiration <= 0 THEN es
    ELSE LET expiry == t - c.Expiration
             keep == {k \in DOMAIN es : ~(es[k].addedAt < expiry)}
         IN  [k \in keep |-> es[k]]

\* expireMetrics deleting nothing
expireMetrics_Never(es, c, t) == es

\* the store after expireMetrics run at time t
expireMetrics(es, c, t) ==
    IF c.Expiration <= 0 THEN es
    ELSE LET expiry == t - c.Expiration
             keep == {k \in DOMAIN es :
                        IF c.ExportTimestamps
                        THEN es[k].time = NULL \/ ~(es[k].time < expiry)
                        ELSE ~(es[k].addedAt < expiry)}
         IN  [k \in keep |-> es[k]]

(***************************************************************************)
(* Inputs: the configurations Init can be given and the events the         *)
(* producers can write.                                                    *)
(***************************************************************************)
ConfigSet ==
    [Expiration : {-1, 0}, ExportTimestamps : BOOLEAN, StringsAsLabels : BOOLEAN,
     MetricPrefix : {<<>>}, AppendSubscriptionName : {FALSE}]

\* &Config{} of the factory in init()
ZeroConfig ==
    [Expiration |-> 0, ExportTimestamps |-> FALSE, StringsAsLabels |-> FALSE,
     MetricPrefix |-> <<>>, AppendSubscriptionName |-> FALSE]

EventShapes ==
    { \* "if", tags {"a/n": "e0"}, values {"in-o": int64(7), "ok": true}
      [Name |-> <<105, 102>>,
       Tags |-> (<<97, 47, 110>> :> <<101, 48>>),
       Values |-> (<<105, 110, 45, 111>> :> [kind |-> "int64", num |-> 7])
                  @@ (<<111, 107>> :> [kind |-> "bool"])],
      \* "st", no tags, values {"a/s": "up", "b/s": "dn"}
      [Name |-> <<115, 116>>,
       Tags |-> <<>>,
       Values |-> (<<97, 47, 115>> :> [kind |-> "string", str |-> <<117, 112>>])
                  @@ (<<98, 47, 115>> :> [kind |-> "string", str |-> <<100, 110>>])] }

EventSet ==
    {[Name |-> sh.Name, Timestamp |-> ts, Tags |-> sh.Tags, Values |-> sh.Values] :
        sh \in EventShapes, ts \in 0..MaxTs}

NoEvent == [Name |-> <<>>, Timestamp |-> 0, Tags |-> <<>>, Values |-> <<>>]
NoMetric == [name |-> <<>>, labels |-> <<>>, time |-> NULL, value |-> 0, addedAt |-> 0]

Collectors == 1..NumCollectors

\* what the metric store calls one time series: a name and a set of labels
Identity(m) == [name |-> m.name, labels |-> {m.labels[i] : i \in 1..Len(m.labels)}]

(***************************************************************************)
(* State.                                                                  *)
(***************************************************************************)
VARIABLES
    cfg,        \* the configuration handed to Init
    Cfg,        \* p.Cfg
    started,    \* Init has returned nil
    clock,      \* time.Now()
    toWrite,    \* events the producers have yet to write
    mutex,      \* holder of p.Mutex: <<"free">>, <<"worker">>, <<"expire">>, <<"collect", c>>
    entries,    \* p.entries
    workerPc, ev, now, labels, todo, pm, key,   \* worker and its locals
    expirePc, nextTick,                         \* expireMetricsPeriodic and its ticker
    collectPc, expiry, ranging, sent,           \* Collect calls and their locals
    wctxDone,   \* wctx is cancelled
    serverPc,   \* the goroutine around p.server.Serve
    closePc,    \* the call of Close
    wg,         \* p.wg
    panicked,   \* a goroutine dereferenced nil
    ingested,   \* history: the identities of all samples the worker saved or compared
    handedOut   \* history: per identity, the latest timestamp the exports so far have sent

workerVars == <<workerPc, ev, now, labels, todo, pm, key>>
expireVars == <<expirePc, nextTick>>
collectVars == <<collectPc, expiry, ranging, sent, handedOut>>
lifeVars == <<wctxDone, serverPc, closePc, wg>>
vars == <<cfg, Cfg, started, clock, toWrite, mutex, entries, workerVars, expireVars,
          collectVars, lifeVars, panicked, ingested>>

\* the output as the factory of init() builds it, before Init is called;
\* the producers have n events to write
Constructed(n) ==
    /\ cfg \in ConfigSet
    /\ Cfg = ZeroConfig
    /\ started = FALSE
    /\ clock = 0
    /\ toWrite = n
    /\ mutex = <<"free">>
    /\ entries = <<>>
    /\ workerPc = "idle" /\ ev = NoEvent /\ now = 0 /\ labels = <<>> /\ todo = {}
    /\ pm = NoMetric /\ key = fnvOffset64
    /\ expirePc = "idle" /\ nextTick = 0
    /\ collectPc = [c \in Collectors |-> "idle"]
    /\ expiry = [c \in Collectors |-> 0]
    /\ ranging = [c \in Collectors |-> {}]
    /\ sent = [c \in Collectors |-> {}]
    /\ wctxDone = FALSE /\ serverPc = "idle" /\ closePc = "idle" /\ wg = 0
    /\ panicked = FALSE
    /\ ingested = {}
    /\ handedOut = <<>>

(***************************************************************************)
(* Init: decode the configuration, set the defaults, start the goroutines. *)
(***************************************************************************)
PrometheusOutputInit ==
    /\ ~started
    /\ Cfg' = setDefaults(cfg)
    /\ started' = TRUE
    /\ wg' = 2
    /\ workerPc' = "waiting"
    /\ expirePc' = "start"
    /\ serverPc' = "serving"
    /\ UNCHANGED <<cfg, clock, toWrite, mutex, entries, ev, now, labels, todo, pm, key,
                   nextTick, collectVars, wctxDone, closePc, panicked, ingested>>

\* time passes
Tick ==
    /\ clock < MaxTime
    /\ clock' = clock + 1
    /\ UNCHANGED <<cfg, Cfg, started, toWrite, mutex, entries, workerVars, expireVars,
                   collectVars, lifeVars, panicked, ingested>>

(***************************************************************************)
(* worker                                                                  *)
(***************************************************************************)
\* select: case ev := <-p.eventChan, a producer being in WriteEvent(e)
workerReceive(e) ==
    /\ workerPc = "waiting"
    /\ toWrite > 0
    /\ toWrite' = toWrite - 1
    /\ ev' = e
    /\ workerPc' = "received"
    /\ UNCHANGED <<cfg, Cfg, started, clock, mutex, entries, now, labels, todo, pm, key,
                   expireVars, collectVars, lifeVars, panicked, ingested>>

\* a select that looks at ctx.Done() only when no producer is ready
workerCancel_EventsFirst ==
    /\ workerPc = "waiting"
    /\ wctxDone
    /\ toWrite = 0
    /\ workerPc' = "done"
    /\ wg' = wg - 1
    /\ UNCHANGED <<cfg, Cfg, started, clock, toWrite, mutex, entries, ev, now, labels,
                   todo, pm, key, expireVars, collectVars, wctxDone, serverPc, closePc,
                   panicked, ingested>>

\* select: case <-ctx.Done(): return, and the deferred p.wg.Done()
workerCancel ==
    /\ workerPc = "waiting"
    /\ wctxDone
    /\ workerPc' = "done"
    /\ wg' = wg - 1
    /\ UNCHANGED <<cfg, Cfg, started, clock, toWrite, mutex, entries, ev, now, labels,
                   todo, pm, key, expireVars, collectVars, wctxDone, serverPc, closePc,
                   panicked, ingested>>

\* the worker going on without p.Lock()
workerLock_NoLock ==
    /\ workerPc = "received"
    /\ now' = clock
    /\ labels' \in getLabelsResults(Cfg, ev)
    /\ todo' = DOMAIN ev.Values
    /\ workerPc' = "processing"
    /\ UNCHANGED <<cfg, Cfg, started, clock, toWrite, mutex, entries, ev, pm, key,
                   expireVars, collectVars, lifeVars, panicked, ingested>>

\* p.Lock(); now := time.Now(); labels := p.getLabels(ev)
workerLock ==
    /\ workerPc = "received"
    /\ mutex = <<"free">>
    /\ mutex' = <<"worker">>
    /\ now' = clock
    /\ labels' \in getLabelsResults(Cfg, ev)
    /\ todo' = DOMAIN ev.Values
    /\ workerPc' = "processing"
    /\ UNCHANGED <<cfg, Cfg, started, clock, toWrite, entries, ev, pm, key, expireVars,
                   collectVars, lifeVars, panicked, ingested>>

\* the loop with break for continue: a value that fails coercion ends the
\* range over ev.Values
workerValue_BreakOnError(vName) ==
    /\ workerPc = "processing"
    /\ vName \in todo
    /\ LET g == getFloat(ev.Values[vName])
       IN  IF g.err /\ ~Cfg.StringsAsLabels
           THEN todo' = {} /\ UNCHANGED <<entries, labels, pm, key, panicked, ingested>>
           ELSE LET m == [name |-> metricName(Cfg, ev.Name, vName),
                          labels |-> sortSlice(labels),
                          time |-> IF Cfg.ExportTimestamps THEN ev.Timestamp ELSE NULL,
                          value |-> IF g.err THEN 1 ELSE g.f,
                          addedAt |-> now]
                    k == calculateKey(m.name, labels)
                IN  /\ todo' = todo \ {vName}
                    /\ pm' = m
                    /\ key' = k
                    /\ labels' = sortSlice(labels)
                    /\ ingested' = ingested \cup {Identity(m)}
                    /\ IF upsertPanics(entries, k, m)
                       THEN panicked' = TRUE /\ UNCHANGED entries
                       ELSE entries' = upsert(entries, k, m) /\ UNCHANGED panicked
    /\ UNCHANGED <<cfg, Cfg, started, clock, toWrite, mutex, workerPc, ev, now,
                   expireVars, collectVars, lifeVars>>

\* the loop without `if p.Cfg.ExportTimestamps { pm.time = &tm }`: pm.time
\* stays nil
workerValue_NoTimestamp(vName) ==
    /\ workerPc = "processing"
    /\ vName \in todo
    /\ todo' = todo \ {vName}
    /\ LET g == getFloat(ev.Values[vName])
       IN  IF g.err /\ ~Cfg.StringsAsLabels
           THEN UNCHANGED <<entries, labels, pm, key, panicked, ingested>>
           ELSE \E m \in {[name |-> metricName(Cfg, ev.Name, vName),
                            labels |-> sortSlice(labels),
                            time |-> NULL,
                            value |-> IF g.err THEN 1 ELSE g.f,
                            addedAt |-> now]} :
                \E k \in {calculateKey(m.name, labels)} :
                    /\ pm' = m
                    /\ key' = k
                    /\ labels' = m.labels
                    /\ ingested' = ingested \cup {Identity(m)}
                    /\ IF upsertPanics(entries, k, m)
                       THEN panicked' = TRUE /\ UNCHANGED entries
                       ELSE entries' = upsert(entries, k, m) /\ UNCHANGED panicked
    /\ UNCHANGED <<cfg, Cfg, started, clock, toWrite, mutex, workerPc, ev, now,
                   expireVars, collectVars, lifeVars>>

\* one iteration of `for vName, val := range ev.Values`; pm and key are
\* bound by quantifiers, which makes them values before they are used
workerValue(vName) ==
    /\ workerPc = "processing"
    /\ vName \in todo
    /\ todo' = todo \ {vName}
    /\ LET g == getFloat(ev.Values[vName])
       IN  IF g.err /\ ~Cfg.StringsAsLabels
           THEN UNCHANGED <<entries, labels, pm, key, panicked, ingested>>
           ELSE \E m \in {[name |-> metricName(Cfg, ev.Name, vName),
                            labels |-> sortSlice(labels),
                            time |-> IF Cfg.ExportTimestamps THEN ev.Timestamp ELSE NULL,
                            value |-> IF g.err THEN 1 ELSE g.f,
                            addedAt |-> now]} :
                \E k \in {calculateKey(m.name, labels)} :
                    /\ pm' = m
                    /\ key' = k
                    /\ labels' = m.labels
                    /\ ingested' = ingested \cup {Identity(m)}
                    /\ IF upsertPanics(entries, k, m)
                       THEN panicked' = TRUE /\ UNCHANGED entries
                       ELSE entries' = upsert(entries, k, m) /\ UNCHANGED panicked
    /\ UNCHANGED <<cfg, Cfg, started, clock, toWrite, mutex, workerPc, ev, now,
                   expireVars, collectVars, lifeVars>>

\* p.Unlock() after the loop, back to the select
workerUnlock ==
    /\ workerPc = "processing"
    /\ todo = {}
    /\ mutex' = <<"free">>
    /\ workerPc' = "waiting"
    /\ ev' = NoEvent /\ labels' = <<>> /\ pm' = NoMetric /\ key' = fnvOffset64 /\ now' = 0
    /\ UNCHANGED <<cfg, Cfg, started, clock, toWrite, entries, todo, expireVars,
                   collectVars, lifeVars, panicked, ingested>>

(***************************************************************************)
(* expireMetricsPeriodic                                                   *)
(***************************************************************************)
\* if p.Cfg.Expiration <= 0 { return }; ticker := time.NewTicker(...)
expireStart ==
    /\ expirePc = "start"
    /\ IF Cfg.Expiration <= 0
       THEN expirePc' = "done" /\ UNCHANGED nextTick
       ELSE expirePc' = "waiting" /\ nextTick' = clock + Cfg.Expiration
    /\ UNCHANGED <<cfg, Cfg, started, clock, toWrite, mutex, entries, workerVars,
                   collectVars, lifeVars, panicked, ingested>>

\* select: case <-ticker.C, then p.Lock()
expireTick ==
    /\ expirePc = "waiting"
    /\ clock >= nextTick
    /\ mutex = <<"free">>
    /\ mutex' = <<"expire">>
    /\ nextTick' = nextTick + Cfg.Expiration
    /\ expirePc' = "locked"
    /\ UNCHANGED <<cfg, Cfg, started, clock, toWrite, entries, workerVars,
                   collectVars, lifeVars, panicked, ingested>>

\* select: case <-ctx.Done(): return
expireCancel ==
    /\ expirePc = "waiting"
    /\ wctxDone
    /\ expirePc' = "done"
    /\ UNCHANGED <<cfg, Cfg, started, clock, toWrite, mutex, entries, workerVars,
                   nextTick, collectVars, lifeVars, panicked, ingested>>

\* p.expireMetrics(); p.Unlock()
expireSweep ==
    /\ expirePc = "locked"
    /\ IF expirePanics(entries, Cfg)
       THEN panicked' = TRUE /\ UNCHANGED entries
       ELSE entries' = expireMetrics(entries, Cfg, clock) /\ UNCHANGED panicked
    /\ mutex' = <<"free">>
    /\ expirePc' = "waiting"
    /\ UNCHANGED <<cfg, Cfg, started, clock, toWrite, workerVars, nextTick, collectVars,
                   lifeVars, ingested>>

(***************************************************************************)
(* Collect, called by the registry for a scrape the server is serving      *)
(***************************************************************************)
\* p.Lock()
collectLock(c) ==
    /\ collectPc[c] = "idle"
    /\ serverPc = "serving"
    /\ mutex = <<"free">>
    /\ mutex' = <<"collect", c>>
    /\ collectPc' = [collectPc EXCEPT ![c] = "locked"]
    /\ UNCHANGED <<cfg, Cfg, started, clock, toWrite, entries, workerVars, expireVars,
                   expiry, ranging, sent, handedOut, lifeVars, panicked, ingested>>

\* p.expireMetrics(), then the range over p.entries starts
collectExpire(c) ==
    /\ collectPc[c] = "locked"
    /\ IF expirePanics(entries, Cfg)
       THEN panicked' = TRUE /\ UNCHANGED entries
       ELSE entries' = expireMetrics(entries, Cfg, clock) /\ UNCHANGED panicked
    /\ expiry' = [expiry EXCEPT ![c] = IF Cfg.Expiration > 0 THEN clock - Cfg.Expiration ELSE 0]
    /\ ranging' = [ranging EXCEPT ![c] = DOMAIN entries']
    /\ collectPc' = [collectPc EXCEPT ![c] = "sending"]
    /\ UNCHANGED <<cfg, Cfg, started, clock, toWrite, mutex, workerVars, expireVars,
                   sent, handedOut, lifeVars, ingested>>

\* ch <- entry
collectSend(c, k) ==
    /\ collectPc[c] = "sending"
    /\ k \in ranging[c]
    /\ ranging' = [ranging EXCEPT ![c] = @ \ {k}]
    /\ sent' = [sent EXCEPT ![c] = @ \cup {entries[k]}]
    /\ UNCHANGED <<cfg, Cfg, started, clock, toWrite, mutex, entries, workerVars,
                   expireVars, collectPc, expiry, handedOut, lifeVars, panicked, ingested>>

\* the history of exports after an export that sent the samples S: per
\* identity, the latest timestamp sent by this export or by one before it
exported(h, S) ==
    LET T == {m \in S : m.time # NULL}
        times(id) == {m.time : m \in {x \in T : Identity(x) = id}}
                     \cup (IF id \in DOMAIN h THEN {h[id]} ELSE {})
    IN  [id \in DOMAIN h \cup {Identity(m) : m \in T} |->
            CHOOSE t \in times(id) : \A u \in times(id) : u <= t]

\* the deferred p.Unlock(): the export is over
collectUnlock(c) ==
    /\ collectPc[c] = "sending"
    /\ ranging[c] = {}
    /\ mutex' = <<"free">>
    /\ collectPc' = [collectPc EXCEPT ![c] = "idle"]
    /\ expiry' = [expiry EXCEPT ![c] = 0]
    /\ sent' = [sent EXCEPT ![c] = {}]
    /\ handedOut' = exported(handedOut, sent[c])
    /\ UNCHANGED <<cfg, Cfg, started, clock, toWrite, entries, workerVars, expireVars,
                   ranging, lifeVars, panicked, ingested>>

(***************************************************************************)
(* Lifecycle: the context of Init, the server goroutine, Close             *)
(***************************************************************************)
\* ctx of Init is cancelled: wctx, derived from it, is cancelled with it
ctxCancel ==
    /\ started
    /\ ~wctxDone
    /\ wctxDone' = TRUE
    /\ UNCHANGED <<cfg, Cfg, started, clock, toWrite, mutex, entries, workerVars,
                   expireVars, collectVars, serverPc, closePc, wg, panicked, ingested>>

\* Close up to and including p.server.Shutdown(ctx)
closeShutdown ==
    /\ started
    /\ closePc = "idle"
    /\ closePc' = "waiting"
    /\ UNCHANGED <<cfg, Cfg, started, clock, toWrite, mutex, entries, workerVars,
                   expireVars, collectVars, wctxDone, serverPc, wg, panicked, ingested>>

\* p.server.Serve returns (the server was shut down, or failed);
\* wcancel(); the deferred p.wg.Done()
serverExit ==
    /\ serverPc = "serving"
    /\ serverPc' = "done"
    /\ wctxDone' = TRUE
    /\ wg' = wg - 1
    /\ UNCHANGED <<cfg, Cfg, started, clock, toWrite, mutex, entries, workerVars,
                   expireVars, collectVars, closePc, panicked, ingested>>

\* p.wg.Wait() returns, Close returns
closeReturn ==
    /\ closePc = "waiting"
    /\ wg = 0
    /\ closePc' = "returned"
    /\ UNCHANGED <<cfg, Cfg, started, clock, toWrite, mutex, entries, workerVars,
                   expireVars, collectVars, wctxDone, serverPc, wg, panicked, ingested>>

\* the output at work: initialization, time, ingestion, expiry, export
Running ==
    \/ PrometheusOutputInit
    \/ Tick
    \/ \E e \in EventSet : workerReceive(e)
    \/ workerLock
    \/ \E vName \in todo : workerValue(vName)
    \/ workerUnlock
    \/ expireStart
    \/ expireTick
    \/ expireSweep
    \/ \E c \in Collectors : collectLock(c)
    \/ \E c \in Collectors : collectExpire(c)
    \/ \E c \in Collectors : \E k \in ranging[c] : collectSend(c, k)
    \/ \E c \in Collectors : collectUnlock(c)

\* cancellation and shutdown
Stopping ==
    \/ ctxCancel
    \/ closeShutdown
    \/ serverExit
    \/ closeReturn
    \/ workerCancel
    \/ expireCancel

Next == Running \/ Stopping

Init == Constructed(MaxEventsShutdown)

\* the whole life of the output, shutdown included
Spec == Init /\ [][Next]_vars

RunInit == Constructed(MaxEvents)

\* the output while it is not shut down, with more events
RunSpec == RunInit /\ [][Running]_vars

(***************************************************************************)
(* The ingestion path alone, eviction off, fed with more configurations of *)
(* the metric name and more event names, value names and tags than the     *)
(* whole machine can take.                                                 *)
(***************************************************************************)
\* prefixes "", "g", "g.n"
IngestConfigSet ==
    [Expiration : {-1}, ExportTimestamps : BOOLEAN, StringsAsLabels : {FALSE},
     MetricPrefix : {<<>>, <<103>>, <<103, 46, 110>>}, AppendSubscriptionName : BOOLEAN]

\* events named "s" or "s-", with one value 7 named "/", "a/b" or "_c", and
\* tags {}, {"a": "x:b:y"} or {"a": "x", "b": "y"}
IngestEventSet ==
    {[Name |-> n, Timestamp |-> 0, Tags |-> t,
      Values |-> (v :> [kind |-> "int64", num |-> 7])] :
        n \in {<<115>>, <<115, 45>>},
        v \in {<<47>>, <<97, 47, 98>>, <<95, 99>>},
        t \in {<<>>,
               (<<97>> :> <<120, 58, 98, 58, 121>>),
               (<<97>> :> <<120>>) @@ (<<98>> :> <<121>>)}}

IngestInit ==
    /\ cfg \in IngestConfigSet
    /\ Cfg = ZeroConfig
    /\ started = FALSE
    /\ clock = 0
    /\ toWrite = MaxEvents
    /\ mutex = <<"free">>
    /\ entries = <<>>
    /\ workerPc = "idle" /\ ev = NoEvent /\ now = 0 /\ labels = <<>> /\ todo = {}
    /\ pm = NoMetric /\ key = fnvOffset64
    /\ expirePc = "idle" /\ nextTick = 0
    /\ collectPc = [c \in Collectors |-> "idle"]
    /\ expiry = [c \in Collectors |-> 0]
    /\ ranging = [c \in Collectors |-> {}]
    /\ sent = [c \in Collectors |-> {}]
    /\ wctxDone = FALSE /\ serverPc = "idle" /\ closePc = "idle" /\ wg = 0
    /\ panicked = FALSE
    /\ ingested = {}
    /\ handedOut = <<>>

Ingesting ==
    \/ PrometheusOutputInit
    \/ \E e \in IngestEventSet : workerReceive(e)
    \/ workerLock
    \/ \E vName \in todo : workerValue(vName)
    \/ workerUnlock

\* Init and the worker, on the inputs above
IngestSpec == IngestInit /\ [][Ingesting]_vars

(***************************************************************************)
(* Cancellation under fair scheduling, with producers that go on calling   *)
(* WriteEvent.                                                             *)
(***************************************************************************)
\* a producer calls WriteEvent and is at its select, ready to hand over
WriteEvent ==
    /\ started
    /\ toWrite < MaxEventsShutdown
    /\ toWrite' = toWrite + 1
    /\ UNCHANGED <<cfg, Cfg, started, clock, mutex, entries, workerVars, expireVars,
                   collectVars, lifeVars, panicked, ingested>>

\* select: case <-ticker.C is chosen; the loop goes on to p.Lock()
expireSelect ==
    /\ expirePc = "waiting"
    /\ clock >= nextTick
    /\ nextTick' = nextTick + Cfg.Expiration
    /\ expirePc' = "ticked"
    /\ UNCHANGED <<cfg, Cfg, started, clock, toWrite, mutex, entries, workerVars,
                   collectVars, lifeVars, panicked, ingested>>

\* p.Lock() of the expiry loop returns
expireLock ==
    /\ expirePc = "ticked"
    /\ mutex = <<"free">>
    /\ mutex' = <<"expire">>
    /\ expirePc' = "locked"
    /\ UNCHANGED <<cfg, Cfg, started, clock, toWrite, entries, workerVars, nextTick,
                   collectVars, lifeVars, panicked, ingested>>

\* the events of the producers that go on: those observed at time 0
StopEventSet == {e \in EventSet : e.Timestamp = 0}

StopInit == Constructed(MaxEventsShutdown) /\ ~cfg.StringsAsLabels /\ ~cfg.ExportTimestamps

\* every step of the output, the select and the Lock of the expiry loop
\* being two steps
StopNext ==
    \/ PrometheusOutputInit
    \/ Tick
    \/ WriteEvent
    \/ \E e \in StopEventSet : workerReceive(e)
    \/ workerLock
    \/ \E vName \in todo : workerValue(vName)
    \/ workerUnlock
    \/ workerCancel
    \/ expireStart
    \/ expireSelect
    \/ expireLock
    \/ expireSweep
    \/ expireCancel
    \/ \E c \in Collectors : collectLock(c)
    \/ \E c \in Collectors : collectExpire(c)
    \/ \E c \in Collectors : \E k \in ranging[c] : collectSend(c, k)
    \/ \E c \in Collectors : collectUnlock(c)
    \/ ctxCancel
    \/ closeShutdown
    \/ serverExit
    \/ closeReturn

\* The scheduler runs every goroutine that can take a step (WF); a
\* goroutine waiting in Lock gets the mutex although others take and release
\* it again and again, sync.Mutex handing it over to a starved waiter (SF);
\* a select that has its ctx.Done() case ready again and again chooses it in
\* the end, the choice among ready cases being uniformly random (SF); the
\* registry receives what Collect sends (WF).
StopFairness ==
    /\ SF_vars(workerLock)
    /\ WF_vars(\E vName \in todo : workerValue(vName))
    /\ WF_vars(workerUnlock)
    /\ SF_vars(workerCancel)
    /\ WF_vars(expireStart)
    /\ SF_vars(expireLock)
    /\ WF_vars(expireSweep)
    /\ SF_vars(expireCancel)
    /\ \A c \in Collectors :
          /\ WF_vars(collectExpire(c))
          /\ WF_vars(\E k \in ranging[c] : collectSend(c, k))
          /\ WF_vars(collectUnlock(c))

StopSpec == StopInit /\ [][StopNext]_vars /\ StopFairness

(***************************************************************************)
(* Ingestion and the expiry loop under fair scheduling, nothing scraping.  *)
(***************************************************************************)
SweepInit == Constructed(MaxEvents) /\ cfg.Expiration = 0 /\ ~cfg.StringsAsLabels

SweepNext ==
    \/ PrometheusOutputInit
    \/ Tick
    \/ \E e \in EventSet : workerReceive(e)
    \/ workerLock
    \/ \E vName \in todo : workerValue(vName)
    \/ workerUnlock
    \/ expireStart
    \/ expireSelect
    \/ expireLock
    \/ expireSweep

\* Time passes (WF); the scheduler runs every goroutine that can take a
\* step, the expiry loop at a select with only its ticker ready included
\* (WF); a goroutine waiting in Lock gets the mutex (SF).
SweepFairness ==
    /\ WF_vars(Tick)
    /\ SF_vars(workerLock)
    /\ WF_vars(\E vName \in todo : workerValue(vName))
    /\ WF_vars(workerUnlock)
    /\ WF_vars(expireStart)
    /\ WF_vars(expireSelect)
    /\ SF_vars(expireLock)
    /\ WF_vars(expireSweep)

SweepSpec == SweepInit /\ [][SweepNext]_vars /\ SweepFairness

(***************************************************************************)
(* Properties.                                                             *)
(***************************************************************************)
\* the age anchor of a stored sample
anchor(m) == IF Cfg.ExportTimestamps THEN m.time ELSE m.addedAt

\* the store holds a sample of this identity
Stored(id) == \E k \in DOMAIN entries : Identity(entries[k]) = id

\* a Collect or the expiry loop holds the lock and looks at the store
Observing ==
    \/ \E c \in Collectors : collectPc[c] \in {"locked", "sending"}
    \/ expirePc = "locked"

\* the worker has applied some but not all values of its event
PartiallyApplied ==
    workerPc = "processing" /\ todo # {} /\ todo # DOMAIN ev.Values

\* this step is the loop iteration of the worker for vName, and it saves pm
Saves(vName) ==
    /\ workerPc = "processing"
    /\ vName \in todo
    /\ todo' = todo \ {vName}
    /\ ~(getFloat(ev.Values[vName]).err /\ ~Cfg.StringsAsLabels)

\* this step is one run of expireMetrics, periodic or inside Collect
Sweeps ==
    \/ expirePc = "locked" /\ expirePc' = "waiting"
    \/ \E c \in Collectors : collectPc[c] = "locked" /\ collectPc'[c] = "sending"

\* the rearrangements of a label slice
Rearranged(ls) ==
    {[i \in 1..Len(ls) |-> ls[f[i]]] : f \in Permutations(1..Len(ls))}

\* C1: in every reachable state no two store entries have the same metric
\* name and the same set of (label name, label value) pairs.
C1_OneEntryPerIdentity ==
    \A k1, k2 \in DOMAIN entries :
        Identity(entries[k1]) = Identity(entries[k2]) => k1 = k2

\* C2: whenever a Collect or an expiry sweep holds the lock and looks at the
\* store, it is the holder of the mutex and the worker is not between two
\* values of one event: no export or sweep sees a partially applied event.
C2_EventAppliedAtomically ==
    /\ Observing => ~PartiallyApplied
    /\ \A c \in Collectors :
          collectPc[c] \in {"locked", "sending"} => mutex = <<"collect", c>>
    /\ expirePc = "locked" => mutex = <<"expire">>

\* a Collect is handing out entries while the worker, holding an event of
\* two values, waits for the lock
C2_Witness ==
    \E c \in Collectors :
        /\ collectPc[c] = "sending"
        /\ sent[c] # {}
        /\ workerPc = "received"
        /\ Cardinality(DOMAIN ev.Values) = 2

\* C3: with timestamp export on, every save of a sample under a key that is
\* already stored leaves the later of the two observation timestamps in the
\* store: a strictly later sample replaces the stored one, an equal or
\* earlier one is dropped and the stored sample stays as it was; a sample
\* under a fresh key is stored; no other key changes.
C3_LaterTimestampWins ==
    [][\A vName \in todo :
          (Cfg.ExportTimestamps /\ Saves(vName) /\ ~panicked') =>
             /\ pm'.time = ev.Timestamp
             /\ key' \in DOMAIN entries'
             /\ \A k \in DOMAIN entries \ {key'} :
                   k \in DOMAIN entries' /\ entries'[k] = entries[k]
             /\ IF key' \in DOMAIN entries
                THEN /\ entries[key'].time < pm'.time => entries'[key'] = pm'
                     /\ entries[key'].time >= pm'.time => entries'[key'] = entries[key']
                ELSE entries'[key'] = pm']_vars

\* the worker has just dropped a sample that arrived late: the store holds
\* a later timestamp under its key
C3_Witness ==
    /\ Cfg.ExportTimestamps
    /\ workerPc = "processing"
    /\ pm # NoMetric
    /\ key \in DOMAIN entries
    /\ entries[key].time > pm.time
    /\ entries[key].name = pm.name

\* C4: whenever Close has returned, the worker and the expiry loop have both
\* reached their terminal state.
C4_CloseWaitsForBothLoops ==
    closePc = "returned" => workerPc = "done" /\ expirePc = "done"

\* C5: with a TTL T > 0 and timestamp export off, a sample is saved with
\* addedAt equal to the time the worker read for its event, and every sweep
\* keeps exactly the entries whose addedAt + T is not earlier than the time
\* of the sweep, unchanged: present at t0 + T and before, absent after.
C5_EvictedAfterTtl ==
    [][/\ \A vName \in todo :
             (~Cfg.ExportTimestamps /\ Saves(vName)) =>
                key' \in DOMAIN entries' /\ entries'[key'].addedAt = now
       /\ (Sweeps /\ Cfg.Expiration > 0 /\ ~Cfg.ExportTimestamps) =>
             \A k \in DOMAIN entries :
                /\ k \in DOMAIN entries' <=> clock <= entries[k].addedAt + Cfg.Expiration
                /\ k \in DOMAIN entries' => entries'[k] = entries[k]]_vars

\* the sweep of a Collect has kept a sample aged exactly T and the store has
\* lost a sample that was ingested earlier
C5_Witness ==
    /\ ~Cfg.ExportTimestamps
    /\ Cfg.Expiration > 0
    /\ \E c \in Collectors :
          /\ collectPc[c] = "sending"
          /\ \E k \in DOMAIN entries :
                entries[k].addedAt + Cfg.Expiration = expiry[c] + Cfg.Expiration
    /\ \E id \in ingested : ~Stored(id)

\* C6: while the effective TTL is zero or negative, every sample that was
\* ever saved is still in the store, whatever sweeps have run and however
\* much time has passed, and the expiry loop is not running: it has not
\* started or it has returned.
C6_DisabledNeverEvicts ==
    (started /\ Cfg.Expiration <= 0) =>
        /\ \A id \in ingested : Stored(id)
        /\ expirePc \in {"start", "done"}

\* eviction is disabled, the sweep of a Collect has run on a store holding
\* a sample older than a minute, and the expiry loop has returned
C6_Witness ==
    /\ started
    /\ Cfg.Expiration <= 0
    /\ expirePc = "done"
    /\ \E c \in Collectors : collectPc[c] = "sending" /\ sent[c] # {}
    /\ \E k \in DOMAIN entries : clock - entries[k].addedAt > defaultExpiration

\* C7 as stated: after Init with a configured TTL of zero or less, no sample
\* is ever evicted.
C7_ZeroOrNegativeDisables ==
    cfg.Expiration <= 0 => \A id \in ingested : Stored(id)

\* C7 as amended: after Init with a negative configured TTL the effective
\* TTL is that negative value and no sample is ever evicted; with a
\* configured TTL of zero the effective TTL is defaultExpiration.
C7_NegativeDisables ==
    started =>
        /\ cfg.Expiration < 0 =>
              Cfg.Expiration = cfg.Expiration /\ \A id \in ingested : Stored(id)
        /\ cfg.Expiration = 0 => Cfg.Expiration = defaultExpiration

\* configured negative: the expiry loop has returned and a sample older
\* than a minute is being exported
C7_Witness ==
    /\ cfg.Expiration < 0
    /\ expirePc = "done"
    /\ \E c \in Collectors :
          \E m \in sent[c] : clock - anchor(m) > defaultExpiration

\* C8: with eviction disabled, once the producers have written all their
\* events and the worker is back at its select, nothing has crashed and the
\* store holds exactly one entry per identity that was ingested.
C8_OneEntryPerIngestedIdentity ==
    (started /\ Cfg.Expiration <= 0 /\ toWrite = 0 /\ workerPc = "waiting") =>
        /\ ~panicked
        /\ Cardinality(DOMAIN entries) = Cardinality(ingested)

\* C9: with expiration on, while a Collect hands out entries it holds the
\* lock, the entries it ranges over are in the store, and every entry it
\* has handed out or will hand out has an anchor not earlier than the
\* expiry its own sweep computed: its age at that sweep is at most the TTL.
C9_ExportedEntriesAreFresh ==
    \A c \in Collectors :
        (collectPc[c] = "sending" /\ Cfg.Expiration > 0 /\ ~panicked) =>
            /\ mutex = <<"collect", c>>
            /\ ranging[c] \subseteq DOMAIN entries
            /\ \A m \in sent[c] \cup {entries[k] : k \in ranging[c]} :
                  (expiry[c] + Cfg.Expiration) - anchor(m) <= Cfg.Expiration

\* a Collect has handed out a sample aged exactly the TTL after its sweep
\* removed an older one
C9_Witness ==
    /\ Cfg.Expiration > 0
    /\ \E c \in Collectors :
          /\ collectPc[c] = "sending"
          /\ \E m \in sent[c] : anchor(m) = expiry[c]
    /\ \E id \in ingested : ~Stored(id)

\* C10: for the label slice the worker got from getLabels, every
\* rearrangement of it makes calculateKey hash the same bytes.
C10_KeyIgnoresLabelOrder ==
    workerPc = "processing" =>
        \A ls \in Rearranged(labels) :
            hashedBytes(ev.Name, ls) = hashedBytes(ev.Name, labels)

\* C11: the label slice the worker got from getLabels for its event never
\* holds two labels of the same name.
C11_LabelNamesDistinct ==
    workerPc = "processing" =>
        \A i, j \in 1..Len(labels) : labels[i].Name = labels[j].Name => i = j

\* getFloat rejects the value for its kind: it is neither a number nor a string
UnsupportedType(v) == getFloat(v).err /\ v.kind # "string"

\* this step is the loop iteration of the worker for vName
Iterates(vName) ==
    workerPc = "processing" /\ vName \in todo /\ todo' = todo \ {vName}

\* C12: in every configuration, the loop iteration of the worker for a value
\* of unsupported kind leaves the store as it was: no new entry, no entry
\* changed.
C12_UnsupportedTypeDropped ==
    [][\A vName \in todo :
          (Iterates(vName) /\ UnsupportedType(ev.Values[vName])) =>
              entries' = entries]_vars

\* the store holds the sample the worker made of value vName of its event
Upserted(vName) ==
    LET k == calculateKey(metricName(Cfg, ev.Name, vName), labels)
    IN  /\ k \in DOMAIN entries
        /\ entries[k].name = metricName(Cfg, ev.Name, vName)
        /\ entries[k].labels = sortSlice(labels)
        /\ IF Cfg.ExportTimestamps
           THEN entries[k].time >= ev.Timestamp
           ELSE /\ entries[k].addedAt = now
                /\ entries[k].value = getFloat(ev.Values[vName]).f

\* C13: a value that fails coercion never aborts processing. While the
\* worker is in its loop over the values of an event, every numeric value
\* it has already come to is upserted, however many other values of the
\* event failed; the worker has not crashed and has not left its loop over
\* the events.
C13_FailedValueNeverAborts ==
    /\ ~panicked
    /\ workerPc # "done"
    /\ workerPc = "processing" =>
          \A vName \in DOMAIN ev.Values \ todo :
              ~getFloat(ev.Values[vName]).err => Upserted(vName)

\* strings-as-labels off: the worker is in its second event, whose bool
\* value failed coercion before its numeric value was upserted; the first
\* event had a failing value too
C13_Witness ==
    /\ ~Cfg.StringsAsLabels
    /\ toWrite = MaxEvents - 2
    /\ workerPc = "processing"
    /\ todo = {}
    /\ \E f \in DOMAIN ev.Values : getFloat(ev.Values[f]).err
    /\ \E vName \in DOMAIN ev.Values :
          /\ ~getFloat(ev.Values[vName]).err
          /\ pm.name = metricName(Cfg, ev.Name, vName)
          /\ Upserted(vName)

\* the string matches ^[A-Za-z0-9_]+$
ValidName(s) == s # <<>> /\ \A i \in 1..Len(s) : isWordByte(s[i])

\* C14: for every prefix, subscription name, value name and flag setting,
\* the name metricName gave to a stored sample is not empty and holds only
\* letters, digits and underscores.
C14_MetricNameIsValid ==
    \A k \in DOMAIN entries : ValidName(entries[k].name)

\* C15: no path holds the lock where it waits on a channel or a timer: not
\* the worker at its select, not the expiry loop at its select, not a
\* Collect at its send of an entry on the channel of the registry.
C15_NoLockAcrossBlockingWait ==
    /\ workerPc = "waiting" => mutex # <<"worker">>
    /\ expirePc = "waiting" => mutex # <<"expire">>
    /\ \A c \in Collectors :
          (collectPc[c] = "sending" /\ ranging[c] # {}) => mutex # <<"collect", c>>

\* C16: once wctx is cancelled, a worker that is at its select does not
\* take another event: no step leads it from waiting to an event received.
C16_NoEventAfterCancel ==
    [][(wctxDone /\ workerPc = "waiting") => workerPc' # "received"]_vars

\* C17: once wctx is cancelled, the worker and the expiry loop both come to
\* their end, although producers go on offering events and exports go on
\* taking the lock; and a loop that has ended does not hold the lock.
C17_LoopsEndAfterCancel ==
    /\ wctxDone ~> (workerPc = "done" /\ expirePc = "done")
    /\ [](workerPc = "done" => mutex # <<"worker">>)
    /\ [](expirePc = "done" => mutex # <<"expire">>)

\* both loops have ended after a cancellation, the expiry loop having had a
\* ticker, while a producer is offering an event and a Collect holds the
\* lock
C17_Witness ==
    /\ wctxDone
    /\ workerPc = "done"
    /\ expirePc = "done"
    /\ Cfg.Expiration > 0
    /\ nextTick > 0
    /\ toWrite > 0
    /\ \E c \in Collectors : mutex = <<"collect", c>>

\* the expiry loop is running and has a sweep to come before time stops
SweepToCome ==
    \/ expirePc = "waiting" /\ nextTick <= MaxTime
    \/ expirePc \in {"ticked", "locked"}

\* the store holds a sample older than the TTL
HoldsExpired ==
    \E k \in DOMAIN entries : anchor(entries[k]) < clock - Cfg.Expiration

\* C18: expiration on, no Collect ever called: as long as the expiry loop
\* is running with a sweep to come, it comes back to its select with a
\* store that holds no sample older than the TTL; so every sample that
\* outlives its TTL without a later ingestion giving its entry a new age
\* anchor is removed by a periodic sweep.
C18_PeriodicSweepEvicts ==
    (Cfg.Expiration > 0 /\ SweepToCome) ~> (expirePc = "waiting" /\ ~HoldsExpired)

\* the expiry loop is back at its select after its last sweep before time
\* stops: every sample the worker saved is gone, no Collect having run
C18_Witness ==
    /\ Cfg.Expiration > 0
    /\ expirePc = "waiting"
    /\ nextTick > MaxTime
    /\ toWrite = 0
    /\ ingested # {}
    /\ entries = <<>>
    /\ \A c \in Collectors : collectPc[c] = "idle"

\* C19: whenever the worker saves a sample, every stored sample of another
\* identity (another name, or a set of labels that differs in a pair) had
\* other bytes hashed for its key and is stored under another key: the
\* save does not touch it.
C19_DistinctIdentitiesDistinctBytes ==
    [][\A vName \in todo :
          Saves(vName) =>
             \A k \in DOMAIN entries :
                Identity(entries[k]) # Identity(pm') =>
                   /\ hashedBytes(entries[k].name, entries[k].labels)
                         # hashedBytes(pm'.name, pm'.labels)
                   /\ k # key'
                   /\ k \in DOMAIN entries' /\ entries'[k] = entries[k]]_vars

\* C20: with timestamp export on, whenever a Collect sends a sample, its
\* timestamp is not earlier than any timestamp an earlier export has sent
\* for the same identity.
C20_ExportedTimestampsNeverDecrease ==
    [][\A c \in Collectors : \A k \in ranging[c] :
          (/\ Cfg.ExportTimestamps
           /\ collectPc[c] = "sending"
           /\ ranging'[c] = ranging[c] \ {k}
           /\ Identity(entries[k]) \in DOMAIN handedOut) =>
              entries[k].time >= handedOut[Identity(entries[k])]]_vars

\* C21: every stored sample, and the sample the worker has made, has a
\* timestamp exactly when timestamp export is on; so neither the comparison
\* of the upsert nor the sweep finds a stored sample without the timestamp
\* it dereferences, and no goroutine has crashed.
C21_TimestampIffExported ==
    /\ \A k \in DOMAIN entries : entries[k].time # NULL <=> Cfg.ExportTimestamps
    /\ (workerPc = "processing" /\ pm # NoMetric) =>
          /\ pm.time # NULL <=> Cfg.ExportTimestamps
          /\ ~upsertPanics(entries, key, pm)
    /\ ~expirePanics(entries, Cfg)
    /\ ~panicked

\* timestamp export and expiration on, all events written: a Collect whose
\* sweep compared timestamps and evicted a sample is sending samples that
\* carry a timestamp
C21_Witness ==
    /\ Cfg.ExportTimestamps
    /\ Cfg.Expiration > 0
    /\ toWrite = 0
    /\ \E id \in ingested : ~Stored(id)
    /\ \E c \in Collectors :
          /\ collectPc[c] = "sending"
          /\ sent[c] # {}
          /\ \A m \in sent[c] : m.time # NULL

=============================================================================
